---- MODULE Spec2Model ----
(***************************************************************************)
(* Model of src/main.py (M3U8DownloadManager and its Flask front end).     *)
(*                                                                         *)
(* SpecFetch : M3U8DownloadManager._download_segments /_download_segment,  *)
(*             one session directory, a thread pool of max_workers workers *)
(*             and up to MaxRuns invocations on the same directory.        *)
(* SpecSel   : M3U8DownloadManager.download_stream of one session: the     *)
(*             selection of the variant and the audio track, then its      *)
(*             calls in order, each call taken as one step.                *)
(* SpecMux   : M3U8DownloadManager._combine_streams of NSessions sessions  *)
(*             of one process (Flask serves requests on threads), which    *)
(*             share the current directory.                                *)
(***************************************************************************)
EXTENDS Integers, Naturals, Sequences, FiniteSets, TLC

(* ------------------------------ bounds -------------------------------- *)
MaxSegs == 3          \* longest playlist.segments
MaxPool == 2          \* largest max_workers tried
MaxRuns == 2          \* invocations of _download_segments on one directory
MaxVariants == 2      \* most playlist.playlists entries of a master playlist
MaxMedia == 2         \* most playlist.media entries of a master playlist
NSessions == 2        \* sessions whose _combine_streams calls interleave

None == "None"

\* no exception
NoError == [kind |-> None, job |-> 0]

(* ---------------------------------------------------------------------- *)
(* Segment URIs are sequences of path components; the last one is what     *)
(* os.path.basename returns.                                               *)
(* ---------------------------------------------------------------------- *)
SegUris == { <<"s0.ts">>, <<"s1.ts">>, <<"hi", "s0.ts">> }

RECURSIVE SeqsOver(_, _)
SeqsOver(S, n) ==
    IF n = 0 THEN { <<>> }
    ELSE LET shorter == SeqsOver(S, n - 1)
         IN  shorter \cup { Append(s, x) : s \in { t \in shorter : Len(t) = n - 1 }, x \in S }

Range(s) == { s[k] : k \in 1..Len(s) }

IsInjective(s) == \A a, b \in 1..Len(s) : s[a] = s[b] => a = b

\* playlist.segments of the media playlists tried: every URI at most once
\* (two of the URIs share their basename), so of at most Cardinality(SegUris)
\* segments
Playlists == { s \in SeqsOver(SegUris, MaxSegs) : IsInjective(s) }

VARIABLES
    playlist,       \* playlist.segments (sequence of segment URIs)
    max_workers,    \* width of the ThreadPoolExecutor
    run,            \* number of the current _download_segments invocation
    mpc,            \* position of the calling thread in _download_segments
    sub,            \* number of futures submitted so far
    jpc,            \* position of every job (future) in _download_segment
    resp,           \* status of the response a job holds
    jerr,           \* exception stored in every future
    disk,           \* the files of self.output_dir, by output_path
    waiter,         \* as_completed's waiter: the futures that finished since
                    \* as_completed was entered, in the order they finished
    preDone,        \* futures already finished when as_completed was entered
    yielded,        \* futures in the order as_completed yielded them
    segments_file,  \* lines of segments_file (the concat list)
    prev_file,      \* the concat list of the invocation before, if it returned
    validAtStart,   \* every segment file was complete and valid at the call
    err,            \* exception that left _download_segments
    gets            \* requests.get calls of the current invocation

VARIABLES
    master,          \* self.playlist: the parsed master playlist, or not loaded
    req_resolution,  \* argument resolution of download_stream
    req_language,    \* argument language of download_stream
    spc,             \* position of the session in download_stream
    resolution,      \* local resolution after lines 70-73
    language,        \* local language after lines 75-78
    stream_playlist, \* index of the selected entry of playlist.playlists, 0 = None
    audio_track,     \* index of the selected entry of playlist.media, 0 = None
    serr,            \* exception that left download_stream
    loads,           \* m3u8.load calls made
    fetches,         \* _download_segments calls made
    files,           \* files the session has written under output_dir
    output_file      \* local output_file

svars == << master, req_resolution, req_language, spc, resolution, language,
            stream_playlist, audio_track, serr, loads, fetches, files,
            output_file >>

VARIABLES
    cpc,      \* position of every session in _combine_streams
    cexc,     \* exception pending in / raised by _combine_streams, per session
    inter,    \* the two intermediate files of the current directory: the
              \* session whose media each holds, 0 = no such file
    out,      \* output_file of every session: the sessions whose video and
              \* audio it holds
    foreign,  \* per session, what it did to a file holding another session's media
    ran,      \* per session, the mux steps (1, 2, 3) it has run, in order
    failed_step, \* per session, the mux step that failed, 0 = none
    response  \* per session, what index answered: send_file or a 400

mvars == << cpc, cexc, inter, out, foreign, ran, failed_step, response >>

fvars == << playlist, max_workers, run, mpc, sub, jpc, resp, jerr, disk,
            waiter, preDone, yielded, segments_file, prev_file,
            validAtStart, err, gets >>

VARIABLES
    uuids,    \* the values uuid.uuid4() has returned so far in this process
    mgr,      \* per session, its M3U8DownloadManager: playlist_url, output_dir
    used      \* per session, the segment-file and concat-list paths it has opened

dvars == << uuids, mgr, used >>

VARIABLES
    upc,                \* position in the URL computations of download_stream
    playlist_url,       \* self.playlist_url
    stream_uri,         \* stream_playlist.uri
    audio_uri,          \* audio_track.uri
    segment_uri,        \* segment.uri of one segment of the fetched playlist
    video_playlist_url, \* local video_playlist_url
    audio_playlist_url, \* local audio_playlist_url
    for_track,          \* the track whose _download_segments call is followed
    base_url,           \* parameter base_url of _download_segments
    segment_url         \* local segment_url

uvars == << upc, playlist_url, stream_uri, audio_uri, segment_uri,
            video_playlist_url, audio_playlist_url, for_track, base_url,
            segment_url >>

vars == << fvars, svars, mvars, dvars, uvars >>

\* not touched by _download_segments
notfetch == << svars, mvars, dvars, uvars >>

\* not touched by the selection steps of download_stream
notsel == << fvars, mvars, dvars, uvars >>

\* not touched by _combine_streams
notmux == << fvars, svars, dvars, uvars >>

\* not touched by the URL computations
noturl == << fvars, svars, mvars, dvars >>

\* not touched by the working directories of the sessions
notdir == << fvars, svars, mvars, uvars >>

N == Len(playlist)
Jobs == 1..N

(* ---------------------------------------------------------------------- *)
(* line 152: output_path = os.path.join(self.output_dir,                   *)
(*                                      os.path.basename(segment.uri))     *)
(* ---------------------------------------------------------------------- *)
basename(uri) == uri[Len(uri)]

output_path(uri) == basename(uri)

Paths == { output_path(u) : u \in SegUris }

Absent == [state |-> "absent", src |-> <<>>]

\* a file: what it holds and the URI the bytes came from
FileOf(st, uri) == [state |-> st, src |-> uri]

Finished(i) == jpc[i] \in {"done", "failed"}
Running(i) == jpc[i] \in {"exists", "get", "write", "hung"}

\* a future that finishes is added to the waiter as_completed installed
add_finished(i) == IF mpc = "collect" THEN Append(waiter, i) ELSE waiter

\* os.path.exists(output_path), line 167
path_exists(p) == disk[p].state # "absent"

\* the segment file of job i is complete and holds the 2xx body of its own URI
ValidFile(i) ==
    /\ disk[output_path(playlist[i])].state = "ok"
    /\ disk[output_path(playlist[i])].src = playlist[i]

FetchInit ==
    /\ playlist \in Playlists
    /\ max_workers \in 1..MaxPool
    /\ run = 0
    /\ mpc = "idle"
    /\ sub = 0
    /\ jpc = [i \in Jobs |-> "none"]
    /\ resp = [i \in Jobs |-> None]
    /\ jerr = [i \in Jobs |-> None]
    /\ disk = [p \in Paths |-> Absent]
    /\ waiter = <<>>
    /\ preDone = {}
    /\ yielded = <<>>
    /\ segments_file = <<>>
    /\ prev_file = <<>>
    /\ validAtStart = FALSE
    /\ err = NoError
    /\ gets = 0

(* ---------------------------------------------------------------------- *)
(* _download_segments, line 148: open(segments_file, 'w') truncates the    *)
(* list and the executor is created.  A second invocation is a retry of    *)
(* the same session on the same output_dir.                                *)
(* ---------------------------------------------------------------------- *)
download_segments_enter ==
    /\ mpc \in {"idle", "returned", "raised"}
    /\ run < MaxRuns
    /\ run' = run + 1
    /\ mpc' = "submit"
    /\ sub' = 0
    /\ jpc' = [i \in Jobs |-> "none"]
    /\ resp' = [i \in Jobs |-> None]
    /\ jerr' = [i \in Jobs |-> None]
    /\ waiter' = <<>>
    /\ preDone' = {}
    /\ yielded' = <<>>
    /\ prev_file' = IF mpc = "returned" THEN segments_file ELSE << >>
    /\ segments_file' = <<>>
    /\ validAtStart' = (mpc = "returned" /\ \A i \in Jobs : ValidFile(i))
    /\ err' = NoError
    /\ gets' = 0
    /\ UNCHANGED << playlist, max_workers, disk >>
    /\ UNCHANGED notfetch

\* lines 150-153: one executor.submit per segment, in manifest order
executor_submit ==
    /\ mpc = "submit"
    /\ sub < N
    /\ sub' = sub + 1
    /\ jpc' = [jpc EXCEPT ![sub + 1] = "queued"]
    /\ UNCHANGED << playlist, max_workers, run, mpc, resp, jerr, disk, waiter,
                    preDone, yielded, segments_file, prev_file, validAtStart,
                    err, gets >>
    /\ UNCHANGED notfetch

\* a pool that starts a queued job whatever the number of jobs already running
worker_start_unbounded(i) ==
    /\ jpc[i] = "queued"
    /\ \A j \in Jobs : j < i => jpc[j] # "queued"
    /\ jpc' = [jpc EXCEPT ![i] = "exists"]
    /\ UNCHANGED << playlist, max_workers, run, mpc, sub, resp, jerr, disk,
                    waiter, preDone, yielded, segments_file, prev_file,
                    validAtStart, err, gets >>
    /\ UNCHANGED notfetch

\* ThreadPoolExecutor: a free worker takes the oldest queued work item
worker_start(i) ==
    /\ jpc[i] = "queued"
    /\ \A j \in Jobs : j < i => jpc[j] # "queued"
    /\ Cardinality({ j \in Jobs : Running(j) }) < max_workers
    /\ jpc' = [jpc EXCEPT ![i] = "exists"]
    /\ UNCHANGED << playlist, max_workers, run, mpc, sub, resp, jerr, disk,
                    waiter, preDone, yielded, segments_file, prev_file,
                    validAtStart, err, gets >>
    /\ UNCHANGED notfetch

\* line 167: if not os.path.exists(output_path) ... else line 171 return
download_segment_exists(i) ==
    /\ jpc[i] = "exists"
    /\ IF path_exists(output_path(playlist[i]))
       THEN /\ jpc' = [jpc EXCEPT ![i] = "done"]
            /\ waiter' = add_finished(i)
       ELSE /\ jpc' = [jpc EXCEPT ![i] = "get"]
            /\ UNCHANGED waiter
    /\ UNCHANGED << playlist, max_workers, run, mpc, sub, resp, jerr, disk,
                    preDone, yielded, segments_file, prev_file, validAtStart,
                    err, gets >>
    /\ UNCHANGED notfetch

\* what requests.get(url) can do: a 2xx response, a non-2xx response (no
\* raise_for_status), or a transport exception
GetOutcomes == {"ok", "bad", "raise"}

\* line 168: response = requests.get(url), which raises or returns a
\* response; line 169: open(output_path, 'wb') then creates or truncates the file
download_segment_get(i) ==
    /\ jpc[i] = "get"
    /\ gets' = gets + 1
    /\ \E o \in GetOutcomes :
          IF o = "raise"
          THEN /\ jpc' = [jpc EXCEPT ![i] = "failed"]
               /\ jerr' = [jerr EXCEPT ![i] = "RequestException"]
               /\ waiter' = add_finished(i)
               /\ UNCHANGED << resp, disk >>
          ELSE /\ jpc' = [jpc EXCEPT ![i] = "write"]
               /\ resp' = [resp EXCEPT ![i] = o]
               /\ disk' = [disk EXCEPT ![output_path(playlist[i])] =
                               FileOf("partial", playlist[i])]
               /\ UNCHANGED << jerr, waiter >>
    /\ UNCHANGED << playlist, max_workers, run, mpc, sub, preDone, yielded,
                    segments_file, prev_file, validAtStart, err >>
    /\ UNCHANGED notfetch

\* the bytes a response of the given status leaves in the file
body_state(status) == IF status = "ok" THEN "ok" ELSE "errbody"

\* line 170: f.write(response.content); the write can fail (IOError) and
\* leave the file as it is; line 171 returns output_path
download_segment_write(i) ==
    /\ jpc[i] = "write"
    /\ \/ /\ disk' = [disk EXCEPT ![output_path(playlist[i])] =
                         FileOf(body_state(resp[i]), playlist[i])]
          /\ jpc' = [jpc EXCEPT ![i] = "done"]
          /\ UNCHANGED jerr
       \/ /\ jpc' = [jpc EXCEPT ![i] = "failed"]
          /\ jerr' = [jerr EXCEPT ![i] = "IOError"]
          /\ UNCHANGED disk
    /\ waiter' = add_finished(i)
    /\ UNCHANGED << playlist, max_workers, run, mpc, sub, resp, preDone, yielded,
                    segments_file, prev_file, validAtStart, err, gets >>
    /\ UNCHANGED notfetch

\* line 155: as_completed(futures) first collects the futures already finished
as_completed_enter ==
    /\ mpc = "submit"
    /\ sub = N
    /\ preDone' = { i \in Jobs : Finished(i) }
    /\ mpc' = "collect"
    /\ UNCHANGED << playlist, max_workers, run, sub, jpc, resp, jerr, disk,
                    waiter, yielded, segments_file, prev_file, validAtStart,
                    err, gets >>
    /\ UNCHANGED notfetch

Yielded == Range(yielded)

\* as next_futures, but a future that was yielded is not taken out of the set
next_futures_repeat == { i \in Jobs : Finished(i) }

\* the futures as_completed can yield next: any of the already finished set
\* (a set, iterated in no particular order), then the others as they finish
next_futures ==
    IF preDone \ Yielded # {}
    THEN preDone \ Yielded
    ELSE LET rest == { k \in 1..Len(waiter) : waiter[k] \notin Yielded }
         IN  { waiter[k] : k \in { m \in rest : \A n \in rest : m <= n } }

\* the line line 157 writes
concat_line(i) == output_path(playlist[i])

\* lines 155-157: segment_path = future.result(); f.write(...)
as_completed_yield(i) ==
    /\ mpc = "collect"
    /\ Len(yielded) < N
    /\ i \in next_futures
    /\ yielded' = Append(yielded, i)
    /\ IF jpc[i] = "done"
       THEN /\ segments_file' = Append(segments_file, concat_line(i))
            /\ UNCHANGED << mpc, err >>
       ELSE /\ err' = [kind |-> jerr[i], job |-> i]
            /\ mpc' = "shutdown"
            /\ UNCHANGED segments_file
    /\ UNCHANGED << playlist, max_workers, run, sub, jpc, resp, jerr, disk,
                    waiter, preDone, prev_file, validAtStart, gets >>
    /\ UNCHANGED notfetch

\* the for loop of line 155 ends when every future was yielded; the with
\* block is left with every job finished, so shutdown(wait=True) has nothing
\* to wait for, and _download_segments returns
as_completed_exhausted ==
    /\ mpc = "collect"
    /\ Len(yielded) = N
    /\ mpc' = "returned"
    /\ UNCHANGED << playlist, max_workers, run, sub, jpc, resp, jerr, disk,
                    waiter, preDone, yielded, segments_file, prev_file,
                    validAtStart, err, gets >>
    /\ UNCHANGED notfetch

\* leaving the with block on the exception: ThreadPoolExecutor.__exit__ is
\* shutdown(wait=True), which lets every submitted job run to its end; then
\* the file is closed and the exception leaves _download_segments
executor_shutdown ==
    /\ mpc = "shutdown"
    /\ \A i \in Jobs : Finished(i)
    /\ mpc' = "raised"
    /\ UNCHANGED << playlist, max_workers, run, sub, jpc, resp, jerr, disk,
                    waiter, preDone, yielded, segments_file, prev_file,
                    validAtStart, err, gets >>
    /\ UNCHANGED notfetch

FetchNext ==
    \/ download_segments_enter
    \/ executor_submit
    \/ \E i \in Jobs : worker_start(i)
    \/ \E i \in Jobs : download_segment_exists(i)
    \/ \E i \in Jobs : download_segment_get(i)
    \/ \E i \in Jobs : download_segment_write(i)
    \/ as_completed_enter
    \/ \E i \in Jobs : as_completed_yield(i)
    \/ as_completed_exhausted
    \/ executor_shutdown

\* line 168: requests.get(url) is called without a timeout; when the server
\* accepts the request and never answers, the call never returns and the job
\* keeps its worker
download_segment_hang(i) ==
    /\ jpc[i] = "get"
    /\ jpc' = [jpc EXCEPT ![i] = "hung"]
    /\ UNCHANGED << playlist, max_workers, run, mpc, sub, resp, jerr, disk,
                    waiter, preDone, yielded, segments_file, prev_file,
                    validAtStart, err, gets >>
    /\ UNCHANGED notfetch

\* _download_segments with servers that may never answer
FetchNextLive ==
    \/ FetchNext
    \/ \E i \in Jobs : download_segment_hang(i)

(* ====================================================================== *)
(* download_stream (lines 62-137) of one session                           *)
(* ====================================================================== *)

\* Python strings are sequences of tokens; None is a value of its own
PyNone == << "None" >>
EmptyStr == << >>

\* "not x" of a str-or-None value
falsy(x) == x \in { PyNone, EmptyStr }

Resolutions == { << "640", "360" >>, << "1280", "720" >> }

\* f"{pl.stream_info.resolution[0]}x{pl.stream_info.resolution[1]}"
format_resolution(r) == << r[1], "x", r[2] >>

MediaEntries ==
    { [type |-> "AUDIO", name |-> << "English" >>],
      [type |-> "AUDIO", name |-> << "Hindi" >>],
      [type |-> "SUBTITLES", name |-> << "English" >>] }

\* _parse_playlist returned None (lines 35-37)
NotLoaded == [loaded |-> FALSE, playlists |-> << >>, media |-> << >>]

Masters ==
    { [loaded |-> TRUE, playlists |-> ps, media |-> ms] :
          ps \in SeqsOver(Resolutions, MaxVariants),
          ms \in SeqsOver(MediaEntries, MaxMedia) }
    \cup { NotLoaded }

\* the values a caller passes as resolution / language
ResolutionArgs ==
    { PyNone, EmptyStr } \cup { format_resolution(r) : r \in Resolutions }
        \cup { << "1920", "x", "1080" >> }

LanguageArgs ==
    { PyNone, EmptyStr, << "English" >>, << "Hindi" >>, << "Tamil" >> }

\* self.output_dir = os.path.join('downloads', str(uuid.uuid4()))  (line 19)
output_dir == << "downloads", "uuid-1" >>

NoException == [type |-> "None", about |-> "None"]

\* line 88: ValueError(f"No stream found for resolution {resolution}")
ResolutionNotFound == [type |-> "ValueError", about |-> "resolution"]

\* line 98: ValueError(f"No audio track found for language {language}")
TrackNotFound == [type |-> "ValueError", about |-> "language"]

\* an error telling that the catalog has no variant or no audio track
NoCatalog == [type |-> "ValueError", about |-> "catalog"]

\* lines 39-49
get_available_streams ==
    IF ~ master.loaded \/ master.playlists = << >>
    THEN << >>
    ELSE [k \in 1..Len(master.playlists) |-> format_resolution(master.playlists[k])]

IsAudio(m) == m.type = "AUDIO"

\* lines 51-60
get_available_audio_tracks ==
    IF ~ master.loaded \/ master.media = << >>
    THEN << >>
    ELSE LET audio == SelectSeq(master.media, IsAudio)
         IN  [k \in 1..Len(audio) |-> audio[k].name]

\* as default_to_first, but the last available entry is taken
default_to_last(requested, available) ==
    IF falsy(requested) /\ available # << >>
    THEN available[Len(available)]
    ELSE requested

\* lines 72-73 and 77-78: if not x and available: x = available[0]
default_to_first(requested, available) ==
    IF falsy(requested) /\ available # << >>
    THEN available[1]
    ELSE requested

\* the smallest member of a non-empty set of indices, 0 for the empty set
First(S) == IF S = {} THEN 0 ELSE CHOOSE k \in S : \A m \in S : k <= m

\* as find_stream, but the first entry is taken when none matches
find_stream_or_first(res) ==
    LET hits == { k \in 1..Len(master.playlists) :
                      format_resolution(master.playlists[k]) = res }
    IN  IF hits = {} /\ master.playlists # << >> THEN 1 ELSE First(hits)

\* lines 81-85: next((pl for pl in self.playlist.playlists if label == resolution), None)
find_stream(res) ==
    First({ k \in 1..Len(master.playlists) :
                format_resolution(master.playlists[k]) = res })

\* lines 91-95: next((media ... if media.type == 'AUDIO' and media.name == language), None)
find_audio(lang) ==
    First({ k \in 1..Len(master.media) :
                master.media[k].type = "AUDIO" /\ master.media[k].name = lang })

\* line 112: os.path.join(self.output_dir, f'output_{resolution}_{language}.mp4')
output_name(res, lang) ==
    output_dir \o << "output_" >> \o res \o << "_" >> \o lang \o << ".mp4" >>

SelInit ==
    /\ master \in Masters
    /\ req_resolution \in ResolutionArgs
    /\ req_language \in LanguageArgs
    /\ spc = "created"
    /\ resolution = PyNone
    /\ language = PyNone
    /\ stream_playlist = 0
    /\ audio_track = 0
    /\ serr = NoException
    /\ loads = 0
    /\ fetches = 0
    /\ files = {}
    /\ output_file = PyNone

\* lines 70-78
download_stream_defaults ==
    /\ spc = "created"
    /\ resolution' = default_to_first(req_resolution, get_available_streams)
    /\ language' = default_to_first(req_language, get_available_audio_tracks)
    /\ spc' = "find_stream"
    /\ UNCHANGED << master, req_resolution, req_language, stream_playlist,
                    audio_track, serr, loads, fetches, files, output_file >>
    /\ UNCHANGED notsel

\* lines 81-88; self.playlist.playlists of a None playlist is an AttributeError
download_stream_find_stream ==
    /\ spc = "find_stream"
    /\ IF ~ master.loaded
       THEN /\ serr' = [type |-> "AttributeError", about |-> "playlist"]
            /\ spc' = "failed"
            /\ UNCHANGED stream_playlist
       ELSE IF find_stream(resolution) = 0
       THEN /\ serr' = ResolutionNotFound
            /\ spc' = "failed"
            /\ UNCHANGED stream_playlist
       ELSE /\ stream_playlist' = find_stream(resolution)
            /\ spc' = "find_audio"
            /\ UNCHANGED serr
    /\ UNCHANGED << master, req_resolution, req_language, resolution, language,
                    audio_track, loads, fetches, files, output_file >>
    /\ UNCHANGED notsel

\* lines 91-98
download_stream_find_audio ==
    /\ spc = "find_audio"
    /\ IF find_audio(language) = 0
       THEN /\ serr' = TrackNotFound
            /\ spc' = "failed"
            /\ UNCHANGED audio_track
       ELSE /\ audio_track' = find_audio(language)
            /\ spc' = "load"
            /\ UNCHANGED serr
    /\ UNCHANGED << master, req_resolution, req_language, resolution, language,
                    stream_playlist, loads, fetches, files, output_file >>
    /\ UNCHANGED notsel

\* lines 101-112: the two m3u8.load calls, either of which can raise, then
\* the names of the concat lists and of the output file
download_stream_load ==
    /\ spc = "load"
    /\ \/ /\ loads' = loads + 2
          /\ output_file' = output_name(resolution, language)
          /\ spc' = "video"
          /\ UNCHANGED serr
       \/ /\ \E n \in 1..2 : loads' = loads + n
          /\ serr' = [type |-> "IOError", about |-> "m3u8.load"]
          /\ spc' = "failed"
          /\ UNCHANGED output_file
    /\ UNCHANGED << master, req_resolution, req_language, resolution, language,
                    stream_playlist, audio_track, fetches, files >>
    /\ UNCHANGED notsel

\* the files a returning or raising _download_segments has written: the
\* concat list (opened 'w' at line 148) and segment files
segment_files(track) == { << track, "segments.txt" >>, << track, "segment files" >> }

\* a video fetch whose failure is kept but does not stop download_stream
download_stream_video_continue ==
    /\ spc = "video"
    /\ fetches' = fetches + 1
    /\ files' = files \cup segment_files("video")
    /\ \/ /\ spc' = "audio"
          /\ UNCHANGED serr
       \/ /\ serr' = [type |-> "RequestException", about |-> "video segment"]
          /\ spc' = "audio"
    /\ UNCHANGED << master, req_resolution, req_language, resolution, language,
                    stream_playlist, audio_track, loads, output_file >>
    /\ UNCHANGED notsel

\* lines 115-120: _download_segments for the video playlist returns or raises
download_stream_video ==
    /\ spc = "video"
    /\ fetches' = fetches + 1
    /\ files' = files \cup segment_files("video")
    /\ \/ /\ spc' = "audio"
          /\ UNCHANGED serr
       \/ /\ serr' = [type |-> "RequestException", about |-> "video segment"]
          /\ spc' = "failed"
    /\ UNCHANGED << master, req_resolution, req_language, resolution, language,
                    stream_playlist, audio_track, loads, output_file >>
    /\ UNCHANGED notsel

\* lines 123-128: _download_segments for the audio playlist returns or raises
download_stream_audio ==
    /\ spc = "audio"
    /\ fetches' = fetches + 1
    /\ files' = files \cup segment_files("audio")
    /\ \/ /\ spc' = "mux"
          /\ UNCHANGED serr
       \/ /\ serr' = [type |-> "RequestException", about |-> "audio segment"]
          /\ spc' = "failed"
    /\ UNCHANGED << master, req_resolution, req_language, resolution, language,
                    stream_playlist, audio_track, loads, output_file >>
    /\ UNCHANGED notsel

\* lines 131-137: _combine_streams returns (the output file is written) or
\* raises ffmpeg.Error
download_stream_combine ==
    /\ spc = "mux"
    /\ \/ /\ files' = files \cup { output_file }
          /\ spc' = "done"
          /\ UNCHANGED serr
       \/ /\ serr' = [type |-> "ffmpeg.Error", about |-> "mux"]
          /\ spc' = "failed"
          /\ UNCHANGED files
    /\ UNCHANGED << master, req_resolution, req_language, resolution, language,
                    stream_playlist, audio_track, loads, fetches, output_file >>
    /\ UNCHANGED notsel

SelNext ==
    \/ download_stream_defaults
    \/ download_stream_find_stream
    \/ download_stream_find_audio
    \/ download_stream_load
    \/ download_stream_video
    \/ download_stream_audio
    \/ download_stream_combine

(* ====================================================================== *)
(* _combine_streams (lines 173-213) of several sessions of one process     *)
(* ====================================================================== *)

Sessions == 1..NSessions

\* lines 186 and 195: the fixed names of the intermediate files, relative to
\* the current directory of the process
intermediate_video == "intermediate_video.mp4"
intermediate_audio == "intermediate_audio.m4a"

Intermediates == { intermediate_video, intermediate_audio }

NoFile == 0

NoOutput == [video |-> NoFile, audio |-> NoFile]

\* the exceptions of _combine_streams: ffmpeg.Error of the run of one step
\* (it carries that run's stderr), FileNotFoundError of os.remove
NoExc == [type |-> None, step |-> 0]

ffmpeg_error(k) == [type |-> "ffmpeg.Error", step |-> k]

FileNotFound == [type |-> "FileNotFoundError", step |-> 0]

MuxInit ==
    /\ cpc = [s \in Sessions |-> "concat_video"]
    /\ cexc = [s \in Sessions |-> NoExc]
    /\ inter = [f \in Intermediates |-> NoFile]
    /\ out = [s \in Sessions |-> NoOutput]
    /\ foreign = [s \in Sessions |-> {}]
    /\ ran = [s \in Sessions |-> << >>]
    /\ failed_step = [s \in Sessions |-> 0]
    /\ response = [s \in Sessions |-> None]

\* what session s does to file f is recorded when f holds another session's media
touch(s, f, op) ==
    IF inter[f] \notin { NoFile, s }
    THEN [foreign EXCEPT ![s] = @ \cup { << op, f >> }]
    ELSE foreign

\* step k of session s failed: ffmpeg.Error is raised and the finally block
\* is entered
step_fails(s, k) ==
    /\ cexc' = [cexc EXCEPT ![s] = ffmpeg_error(k)]
    /\ failed_step' = [failed_step EXCEPT ![s] = k]
    /\ cpc' = [cpc EXCEPT ![s] = "exists_video"]

\* one ffmpeg concat run (step k) of session s into file f (overwrite_output):
\* it succeeds, or fails (ffmpeg.Error) having written f or not
ffmpeg_concat(s, k, f, next) ==
    /\ ran' = [ran EXCEPT ![s] = Append(@, k)]
    /\ \/ /\ inter' = [inter EXCEPT ![f] = s]
          /\ foreign' = touch(s, f, "write")
          /\ cpc' = [cpc EXCEPT ![s] = next]
          /\ UNCHANGED << cexc, failed_step >>
       \/ /\ \/ /\ inter' = [inter EXCEPT ![f] = s]
                /\ foreign' = touch(s, f, "write")
             \/ UNCHANGED << inter, foreign >>
          /\ step_fails(s, k)

\* lines 183-189
combine_streams_concat_video(s) ==
    /\ cpc[s] = "concat_video"
    /\ ffmpeg_concat(s, 1, intermediate_video, "concat_audio")
    /\ UNCHANGED << out, response >>
    /\ UNCHANGED notmux

\* lines 192-198
combine_streams_concat_audio(s) ==
    /\ cpc[s] = "concat_audio"
    /\ ffmpeg_concat(s, 2, intermediate_audio, "merge")
    /\ UNCHANGED << out, response >>
    /\ UNCHANGED notmux

\* lines 201-208: ffmpeg reads the two intermediate files and writes
\* output_file; it fails when an input is missing, and can fail otherwise,
\* having written output_file or not
combine_streams_merge(s) ==
    /\ cpc[s] = "merge"
    /\ ran' = [ran EXCEPT ![s] = Append(@, 3)]
    /\ LET merged == [video |-> inter[intermediate_video],
                      audio |-> inter[intermediate_audio]]
           reads == { << "read", f >> : f \in { g \in Intermediates :
                                                    inter[g] \notin { NoFile, s } } }
       IN  /\ foreign' = [foreign EXCEPT ![s] = @ \cup reads]
           /\ IF \E f \in Intermediates : inter[f] = NoFile
              THEN /\ step_fails(s, 3)
                   /\ UNCHANGED out
              ELSE \/ /\ out' = [out EXCEPT ![s] = merged]
                      /\ cpc' = [cpc EXCEPT ![s] = "exists_video"]
                      /\ UNCHANGED << cexc, failed_step >>
                   \/ /\ step_fails(s, 3)
                      /\ \/ out' = [out EXCEPT ![s] = merged]
                         \/ UNCHANGED out
    /\ UNCHANGED << inter, response >>
    /\ UNCHANGED notmux

\* line 212 of the finally block: if os.path.exists(file)
cleanup_exists(s, f, rm, skip) ==
    /\ cpc' = [cpc EXCEPT ![s] = IF inter[f] # NoFile THEN rm ELSE skip]
    /\ UNCHANGED << cexc, inter, out, foreign, ran, failed_step, response >>

\* line 213: os.remove(file); FileNotFoundError when the file is gone, which
\* leaves the finally block and replaces the pending exception
cleanup_remove(s, f, next) ==
    /\ IF inter[f] = NoFile
       THEN /\ cexc' = [cexc EXCEPT ![s] = FileNotFound]
            /\ cpc' = [cpc EXCEPT ![s] = "raised"]
            /\ UNCHANGED << inter, foreign >>
       ELSE /\ inter' = [inter EXCEPT ![f] = NoFile]
            /\ foreign' = touch(s, f, "delete")
            /\ cpc' = [cpc EXCEPT ![s] = next]
            /\ UNCHANGED cexc
    /\ UNCHANGED << out, ran, failed_step, response >>

combine_streams_exists_video(s) ==
    /\ cpc[s] = "exists_video"
    /\ cleanup_exists(s, intermediate_video, "remove_video", "exists_audio")
    /\ UNCHANGED notmux

combine_streams_remove_video(s) ==
    /\ cpc[s] = "remove_video"
    /\ cleanup_remove(s, intermediate_video, "exists_audio")
    /\ UNCHANGED notmux

combine_streams_exists_audio(s) ==
    /\ cpc[s] = "exists_audio"
    /\ cleanup_exists(s, intermediate_audio, "remove_audio", "exit")
    /\ UNCHANGED notmux

combine_streams_remove_audio(s) ==
    /\ cpc[s] = "remove_audio"
    /\ cleanup_remove(s, intermediate_audio, "exit")
    /\ UNCHANGED notmux

\* the end of the finally block: the pending exception is re-raised, or
\* _combine_streams returns
combine_streams_exit(s) ==
    /\ cpc[s] = "exit"
    /\ cpc' = [cpc EXCEPT ![s] = IF cexc[s] = NoExc THEN "returned" ELSE "raised"]
    /\ UNCHANGED << cexc, inter, out, foreign, ran, failed_step, response >>
    /\ UNCHANGED notmux

\* index, lines 241-254: download_stream returned output_file, which
\* send_file returns to the caller; or the exception is answered with a 400
index_respond(s) ==
    /\ cpc[s] \in { "returned", "raised" }
    /\ response[s] = None
    /\ response' = [response EXCEPT ![s] =
                        IF cpc[s] = "returned" THEN "send_file" ELSE "400"]
    /\ UNCHANGED << cpc, cexc, inter, out, foreign, ran, failed_step >>
    /\ UNCHANGED notmux

MuxNext ==
    \E s \in Sessions :
        \/ combine_streams_concat_video(s)
        \/ combine_streams_concat_audio(s)
        \/ combine_streams_merge(s)
        \/ combine_streams_exists_video(s)
        \/ combine_streams_remove_video(s)
        \/ combine_streams_exists_audio(s)
        \/ combine_streams_remove_audio(s)
        \/ combine_streams_exit(s)
        \/ index_respond(s)

\* the sessions of the other specifications: _combine_streams not entered
MuxIdle ==
    /\ cpc = [s \in Sessions |-> "idle"]
    /\ cexc = [s \in Sessions |-> NoExc]
    /\ inter = [f \in Intermediates |-> NoFile]
    /\ out = [s \in Sessions |-> NoOutput]
    /\ foreign = [s \in Sessions |-> {}]
    /\ ran = [s \in Sessions |-> << >>]
    /\ failed_step = [s \in Sessions |-> 0]
    /\ response = [s \in Sessions |-> None]

\* the session of SpecFetch: selected, at its fetch of one playlist
SelIdle ==
    /\ master = NotLoaded
    /\ req_resolution = PyNone
    /\ req_language = PyNone
    /\ spc = "video"
    /\ resolution = PyNone
    /\ language = PyNone
    /\ stream_playlist = 0
    /\ audio_track = 0
    /\ serr = NoException
    /\ loads = 0
    /\ fetches = 0
    /\ files = {}
    /\ output_file = PyNone

\* the fetch of SpecSel: not entered
FetchIdle ==
    /\ playlist = << >>
    /\ max_workers = 1
    /\ run = 0
    /\ mpc = "idle"
    /\ sub = 0
    /\ jpc = << >>
    /\ resp = << >>
    /\ jerr = << >>
    /\ disk = [p \in Paths |-> Absent]
    /\ waiter = << >>
    /\ preDone = {}
    /\ yielded = << >>
    /\ segments_file = << >>
    /\ prev_file = << >>
    /\ validAtStart = FALSE
    /\ err = NoError
    /\ gets = 0

(* ====================================================================== *)
(* The working directories of the sessions of one process (lines 12-20,    *)
(* 109-112, 152)                                                           *)
(* ====================================================================== *)

\* the manifest URLs the sessions are created for
PlaylistUrls == { "http://h/master.m3u8", "http://h/other.m3u8" }

\* the values uuid.uuid4() can return; uuid4 is taken to return a value it has
\* not returned before
Uuids == 1..NSessions

NoManager == [playlist_url |-> None, output_dir |-> << >>]

\* a working directory that does not depend on the session
shared_output_dir(u) == << "downloads" >>

\* line 19: os.path.join('downloads', str(uuid.uuid4()))
new_output_dir(u) == << "downloads", u >>

\* os.path.join(self.output_dir, name)
session_path(s, name) == Append(mgr[s].output_dir, name)

\* lines 110-111
video_segments_file == "video_segments.txt"
audio_segments_file == "audio_segments.txt"

DirInit ==
    /\ uuids = {}
    /\ mgr = [s \in Sessions |-> NoManager]
    /\ used = [s \in Sessions |-> {}]

\* lines 12-20: M3U8DownloadManager(playlist_url) of session s
manager_init(s) ==
    /\ mgr[s] = NoManager
    /\ \E url \in PlaylistUrls, u \in Uuids \ uuids :
          /\ uuids' = uuids \cup { u }
          /\ mgr' = [mgr EXCEPT ![s] = [playlist_url |-> url,
                                        output_dir |-> new_output_dir(u)]]
    /\ UNCHANGED used
    /\ UNCHANGED notdir

\* lines 110-111 and 148: session s opens the concat list of a track
open_segments_file(s) ==
    /\ mgr[s] # NoManager
    /\ \E name \in { video_segments_file, audio_segments_file } :
          /\ session_path(s, name) \notin used[s]
          /\ used' = [used EXCEPT ![s] = @ \cup { session_path(s, name) }]
    /\ UNCHANGED << uuids, mgr >>
    /\ UNCHANGED notdir

\* line 152: a job of session s gets the path of its segment file
open_segment(s) ==
    /\ mgr[s] # NoManager
    /\ \E uri \in SegUris :
          /\ session_path(s, output_path(uri)) \notin used[s]
          /\ used' = [used EXCEPT ![s] = @ \cup { session_path(s, output_path(uri)) }]
    /\ UNCHANGED << uuids, mgr >>
    /\ UNCHANGED notdir

DirNext ==
    \E s \in Sessions :
        \/ manager_init(s)
        \/ open_segments_file(s)
        \/ open_segment(s)

DirIdle == DirInit

(* ====================================================================== *)
(* The URLs of download_stream and _download_segments (lines 101-103, 118, *)
(* 126, 151). A URL is a host and the components of its path; a URI of a   *)
(* manifest is a relative path, a path from the root, or a full URL.       *)
(* ====================================================================== *)

Url(h, p) == [host |-> h, path |-> p]

NoUrl == Url(None, << >>)

Ref(k, h, p) == [kind |-> k, host |-> h, path |-> p]

NoRef == Ref(None, None, << >>)

\* the URLs of the top-level manifest: at the root of the host, in a
\* directory, in a directory of a directory
ManifestUrls ==
    { Url("h", << "master.m3u8" >>),
      Url("h", << "a", "master.m3u8" >>),
      Url("h", << "a", "b", "master.m3u8" >>) }

\* the URIs of a variant or of an audio track in the top-level manifest
SubManifestRefs ==
    { Ref("relative", None, << "v.m3u8" >>),
      Ref("relative", None, << "v", "video.m3u8" >>),
      Ref("rooted", None, << "x", "v.m3u8" >>),
      Ref("absolute", "cdn", << "c", "v.m3u8" >>) }

\* segment.uri, a relative path
SegmentRefs == { Ref("relative", None, u) : u \in SegUris }

ButLast(p) == IF p = << >> THEN << >> ELSE SubSeq(p, 1, Len(p) - 1)

\* os.path.dirname(url) of a URL whose path has a last component: the URL up
\* to its last '/', without that '/'
dirname(url) == Url(url.host, ButLast(url.path))

\* urllib.parse.urljoin(base, uri): a full URL replaces the base, a rooted
\* path replaces the path of the base, and a relative path replaces the last
\* component of the path of the base
urljoin(base, uri) ==
    IF uri.kind = "absolute" THEN Url(uri.host, uri.path)
    ELSE IF uri.kind = "rooted" THEN Url(base.host, uri.path)
    ELSE Url(base.host, ButLast(base.path) \o uri.path)

UrlInit ==
    /\ upc = "resolve"
    /\ playlist_url \in ManifestUrls
    /\ stream_uri \in SubManifestRefs
    /\ audio_uri \in SubManifestRefs
    /\ segment_uri \in SegmentRefs
    /\ video_playlist_url = NoUrl
    /\ audio_playlist_url = NoUrl
    /\ for_track = None
    /\ base_url = NoUrl
    /\ segment_url = NoUrl

\* lines 101-103
download_stream_resolve ==
    /\ upc = "resolve"
    /\ LET base == dirname(playlist_url)
       IN  /\ video_playlist_url' = urljoin(base, stream_uri)
           /\ audio_playlist_url' = urljoin(base, audio_uri)
    /\ upc' = "call"
    /\ UNCHANGED << playlist_url, stream_uri, audio_uri, segment_uri, for_track,
                    base_url, segment_url >>
    /\ UNCHANGED noturl

\* lines 118 and 126: base_url=os.path.dirname(video_playlist_url), and of
\* audio_playlist_url in the audio call
download_segments_call ==
    /\ upc = "call"
    /\ \E t \in { "video", "audio" } :
          /\ for_track' = t
          /\ base_url' = dirname(IF t = "video" THEN video_playlist_url
                                                ELSE audio_playlist_url)
    /\ upc' = "segment"
    /\ UNCHANGED << playlist_url, stream_uri, audio_uri, segment_uri,
                    video_playlist_url, audio_playlist_url, segment_url >>
    /\ UNCHANGED noturl

\* line 151: segment_url = urljoin(base_url, segment.uri)
download_segments_url ==
    /\ upc = "segment"
    /\ segment_url' = urljoin(base_url, segment_uri)
    /\ upc' = "done"
    /\ UNCHANGED << playlist_url, stream_uri, audio_uri, segment_uri,
                    video_playlist_url, audio_playlist_url, for_track, base_url >>
    /\ UNCHANGED noturl

UrlNext ==
    \/ download_stream_resolve
    \/ download_segments_call
    \/ download_segments_url

UrlIdle ==
    /\ upc = "idle"
    /\ playlist_url = NoUrl
    /\ stream_uri = NoRef
    /\ audio_uri = NoRef
    /\ segment_uri = NoRef
    /\ video_playlist_url = NoUrl
    /\ audio_playlist_url = NoUrl
    /\ for_track = None
    /\ base_url = NoUrl
    /\ segment_url = NoUrl

InitSel == SelInit /\ FetchIdle /\ MuxIdle /\ DirIdle /\ UrlIdle

SpecSel == InitSel /\ [][SelNext]_vars

InitFetch == FetchInit /\ SelIdle /\ MuxIdle /\ DirIdle /\ UrlIdle

InitMux == MuxInit /\ FetchIdle /\ SelIdle /\ DirIdle /\ UrlIdle

SpecMux == InitMux /\ [][MuxNext]_vars

SpecFetch == InitFetch /\ [][FetchNext]_vars

\* the threads of the process are scheduled fairly: a step that stays possible
\* is taken
SpecFetchLive == InitFetch /\ [][FetchNextLive]_vars /\ WF_vars(FetchNextLive)

InitDir == DirInit /\ FetchIdle /\ SelIdle /\ MuxIdle /\ UrlIdle

SpecDir == InitDir /\ [][DirNext]_vars

InitUrl == UrlInit /\ FetchIdle /\ SelIdle /\ MuxIdle /\ DirIdle

SpecUrl == InitUrl /\ [][UrlNext]_vars

(* ====================================================================== *)
(* Properties of _download_segments / _download_segment (SpecFetch)        *)
(* ====================================================================== *)

\* the concat list in manifest order
ManifestOrder == [k \in 1..N |-> output_path(playlist[k])]

\* C1: whatever the completion order of the jobs, the entries of the concat
\* list written by _download_segments are in the order of the segments of the
\* input playlist.
C1_ManifestOrder ==
    mpc = "returned" => segments_file = ManifestOrder

\* C2: when _download_segments returns without error on N segments, the
\* concat list has exactly N entries, one per segment index: every index
\* 1..N was yielded exactly once and its entry is that segment's local path.
C2_ExactlyN ==
    mpc = "returned" =>
        /\ Len(segments_file) = N
        /\ Len(yielded) = N
        /\ Range(yielded) = Jobs
        /\ \A k \in 1..N : segments_file[k] = output_path(playlist[yielded[k]])

\* a run of two or more segments returned, the first entry not being segment 1
C2_Witness ==
    /\ mpc = "returned"
    /\ N >= 2
    /\ yielded[1] # 1

\* the segment indices the exception that leaves _download_segments names
ErrIndices(e) == IF e = NoError THEN {} ELSE { e.job }

\* C3: when some segment jobs fail, _download_segments fails with one
\* aggregate error listing exactly the indices of all failed segments, and
\* every segment fetched successfully is still on disk.
C3_AggregateError ==
    mpc = "raised" =>
        /\ ErrIndices(err) = { i \in Jobs : jpc[i] = "failed" }
        /\ \A i \in Jobs : jpc[i] = "done" => path_exists(output_path(playlist[i]))

\* C4: a segment GET answered with a non-2xx status makes the job fail: the
\* job does not return a local path and the response body is not stored as
\* the segment file.
C4_BadStatusFails ==
    \A i \in Jobs :
        resp[i] = "bad" =>
            /\ jpc[i] # "done"
            /\ disk[output_path(playlist[i])] # FileOf("errbody", playlist[i])

\* C5: a retry on the same directory does not take a segment file that an
\* interrupted earlier fetch left partially written for a complete one: it
\* fetches the segment again, so when the retry returns no segment file of
\* the playlist is partial any more.  (A job of the returning run that opened
\* a file also wrote it to its end, so a partial file is one the run skipped.)
C5_PartialNotTrusted ==
    (run > 1 /\ mpc = "returned") =>
        \A i \in Jobs : disk[output_path(playlist[i])].state # "partial"

\* C6: a second run on a directory that already holds every segment file,
\* complete and valid, does no GET and yields the concat list of the first.
C6_Idempotent ==
    (run > 1 /\ mpc = "returned" /\ validAtStart) =>
        /\ gets = 0
        /\ segments_file = prev_file

(* ====================================================================== *)
(* Properties of the selection in download_stream (SpecSel)                *)
(* ====================================================================== *)

Labels == Range(get_available_streams)

AudioNames == Range(get_available_audio_tracks)

\* the master playlist was parsed and has a variant and an audio track
HasCatalog == master.loaded /\ Labels # {} /\ AudioNames # {}

\* lines 81-88 were executed
StreamSearched == spc \notin { "created", "find_stream" }

\* lines 91-98 were executed
AudioSearched ==
    /\ spc \notin { "created", "find_stream", "find_audio" }
    /\ serr \notin { ResolutionNotFound, [type |-> "AttributeError", about |-> "playlist"] }

\* the requested resolution is omitted (the default applies) or is a label
ResolutionMatched == falsy(req_resolution) \/ req_resolution \in Labels

FailedBeforeAnyLoad(e) ==
    /\ spc = "failed"
    /\ serr = e
    /\ loads = 0
    /\ fetches = 0

\* C7: on a catalog with variants and audio tracks, a requested resolution
\* that is no variant label makes download_stream fail with the resolution
\* error, and (the resolution being matched) a requested track name that is
\* no audio track name makes it fail with the track error; in both cases
\* before any sub-manifest load and any segment fetch.
C7_SelectionErrors ==
    HasCatalog =>
        /\ ( /\ ~ falsy(req_resolution)
             /\ req_resolution \notin Labels
             /\ StreamSearched )
           => FailedBeforeAnyLoad(ResolutionNotFound)
        /\ ( /\ ResolutionMatched
             /\ ~ falsy(req_language)
             /\ req_language \notin AudioNames
             /\ spc \notin { "created", "find_stream", "find_audio" } )
           => FailedBeforeAnyLoad(TrackNotFound)

\* a present resolution and an absent track name were requested, and the
\* session failed on the track
C7_Witness ==
    /\ HasCatalog
    /\ req_resolution \in Labels
    /\ req_language = << "Tamil" >>
    /\ spc = "failed"
    /\ serr = TrackNotFound

\* C8: on a catalog with no variant or no audio track, download_stream fails
\* with the no-catalog error whatever was requested, and has written no file.
C8_NoCatalog ==
    ( /\ master.loaded
      /\ (Labels = {} \/ AudioNames = {})
      /\ spc \notin { "created", "find_stream", "find_audio" } )
    => /\ spc = "failed"
       /\ serr = NoCatalog
       /\ files = {}

\* the selected entries, by what the catalog says of them
SelectedLabel == format_resolution(master.playlists[stream_playlist])

SelectedName == master.media[audio_track].name

IsFirstAudio(k) ==
    /\ k \in 1..Len(master.media)
    /\ master.media[k].type = "AUDIO"
    /\ \A j \in 1..(k - 1) : master.media[j].type # "AUDIO"

\* C9: on a catalog with variants and audio tracks, an omitted or empty
\* resolution selects the first variant and an omitted or empty language the
\* first audio track, in manifest order; a requested and present resolution
\* or language selects a (the first) variant or audio track of that label or
\* name; and the output path is output_<resolution>_<language>.mp4 in the
\* session directory.
C9_Selection ==
    HasCatalog =>
        /\ (StreamSearched /\ falsy(req_resolution)) => stream_playlist = 1
        /\ (StreamSearched /\ req_resolution \in Labels) =>
               /\ stream_playlist \in 1..Len(master.playlists)
               /\ SelectedLabel = req_resolution
               /\ \A j \in 1..(stream_playlist - 1) :
                      format_resolution(master.playlists[j]) # req_resolution
        /\ (AudioSearched /\ falsy(req_language)) => IsFirstAudio(audio_track)
        /\ (AudioSearched /\ req_language \in AudioNames) =>
               /\ audio_track \in 1..Len(master.media)
               /\ master.media[audio_track].type = "AUDIO"
               /\ SelectedName = req_language
               /\ \A j \in 1..(audio_track - 1) :
                      ~ ( master.media[j].type = "AUDIO"
                          /\ master.media[j].name = req_language )
        /\ spc \in { "video", "audio", "mux", "done" } =>
               output_file = output_dir \o << "output_" >> \o SelectedLabel
                                 \o << "_" >> \o SelectedName \o << ".mp4" >>

\* "1280x720" / "Hindi" on variants 640x360, 1280x720 and tracks English,
\* Hindi: the second variant and the second track, and the run completed
C9_Witness ==
    /\ spc = "done"
    /\ req_resolution = << "1280", "x", "720" >>
    /\ req_language = << "Hindi" >>
    /\ Len(master.playlists) = 2
    /\ format_resolution(master.playlists[1]) = << "640", "x", "360" >>
    /\ master.media[1].name = << "English" >>
    /\ stream_playlist = 2
    /\ audio_track = 2
    /\ output_file \in files

(* ====================================================================== *)
(* Properties of _combine_streams (SpecMux)                                *)
(* ====================================================================== *)

\* C10: the intermediate files are per session: no session ever writes over,
\* reads or deletes an intermediate file that holds another session's media.
C10_IntermediatesPrivate ==
    \A s \in Sessions : foreign[s] = {}

Exited(s) == cpc[s] \in { "returned", "raised" }

\* C11: after _combine_streams of a session has returned or raised, on every
\* exit path, neither of the two intermediate files of the session exists:
\* no intermediate file holds the session's media any more.
C11_IntermediatesRemoved ==
    \A s \in Sessions :
        Exited(s) => \A f \in Intermediates : inter[f] # s

\* C12: when the mux failed at one of its three steps, no file exists at the
\* final output path after _combine_streams, and index returns a file to the
\* caller only if all three steps succeeded.
C12_NoPartialOutput ==
    \A s \in Sessions :
        /\ (Exited(s) /\ failed_step[s] # 0) => out[s] = NoOutput
        /\ response[s] = "send_file" => (ran[s] = << 1, 2, 3 >> /\ failed_step[s] = 0)

IsPrefix(a, b) == Len(a) <= Len(b) /\ \A k \in 1..Len(a) : a[k] = b[k]

\* C18: the mux runs its steps in the order 1 (concatenate video), 2
\* (concatenate audio), 3 (merge); a failed step is the last step run, and
\* _combine_streams then fails with the error of that step.
C18_StepOrder ==
    \A s \in Sessions :
        /\ IsPrefix(ran[s], << 1, 2, 3 >>)
        /\ failed_step[s] # 0 =>
               /\ ran[s] = [k \in 1..failed_step[s] |-> k]
               /\ Exited(s) => (cpc[s] = "raised" /\ cexc[s] = ffmpeg_error(failed_step[s]))

\* job i has reached its segment file: it passed the existence check of line
\* 167 and then skipped the file or went on to write it
Touched(i) == jpc[i] \in { "get", "write", "done", "failed" }

\* C13: within one session distinct segments are stored at distinct local
\* paths: no two fetch jobs for different segment URIs write to or skip on the
\* same segment file.
C13_DisjointSegmentFiles ==
    \A i, j \in Jobs :
        (Touched(i) /\ Touched(j) /\ playlist[i] # playlist[j])
            => output_path(playlist[i]) # output_path(playlist[j])

InFlight == { j \in Jobs : Running(j) }

\* C20: at every moment of one _download_segments invocation at most
\* max_workers segment fetch jobs are in flight, and when the invocation has
\* exited, by returning or by raising the error of a failed job, every job of
\* the invocation has finished: none is still running or still queued.
C20_PoolBounded ==
    /\ Cardinality(InFlight) <= max_workers
    /\ mpc \in { "returned", "raised" } => \A i \in Jobs : Finished(i)

\* the pool is full while a submitted job waits in its queue
C20_Witness ==
    /\ Cardinality(InFlight) = max_workers
    /\ \E i \in Jobs : jpc[i] = "queued"

\* lines 32-34: the exceptions that _parse_playlist catches, of requests.get,
\* of raise_for_status and of m3u8.loads
ManifestErrors == { "RequestException", "HTTPError", "ParseError" }

\* C15: when the top-level manifest could not be fetched or parsed, the
\* session selects nothing, loads and fetches nothing and writes no file, and
\* download_stream fails with the manifest's error, not another kind of error.
C15_ManifestError ==
    ~ master.loaded =>
        /\ spc \in { "created", "find_stream", "failed" }
        /\ stream_playlist = 0 /\ audio_track = 0
        /\ loads = 0 /\ fetches = 0 /\ files = {}
        /\ spc = "failed" => serr.type \in ManifestErrors

\* the steps of download_stream: each phase leads to the next one or to failure
PhaseSteps ==
    { << "created", "find_stream" >>, << "find_stream", "find_audio" >>,
      << "find_audio", "load" >>, << "load", "video" >>,
      << "video", "audio" >>, << "audio", "mux" >>, << "mux", "done" >> }
    \cup { << p, "failed" >> : p \in { "find_stream", "find_audio", "load",
                                       "video", "audio", "mux" } }

ListWritten(track) == << track, "segments.txt" >> \in files

PhaseState ==
    /\ spc \in { "created", "find_stream", "find_audio", "load" }
           => (fetches = 0 /\ files = {})
    /\ spc = "video" => (fetches = 0 /\ files = {})
    /\ spc = "audio" => (fetches = 1 /\ ListWritten("video") /\ ~ ListWritten("audio"))
    /\ spc \in { "mux", "done" }
           => (fetches = 2 /\ ListWritten("video") /\ ListWritten("audio"))
    /\ output_file \in files <=> spc = "done"
    /\ serr # NoException <=> spc = "failed"

\* C17: download_stream goes through selection, video fetch, audio fetch, mux
\* and completion in this order: the audio fetch starts only when the video
\* fetch has returned and the video concat list is written, the mux only when
\* both fetches have returned and both lists are written, and a failure in a
\* phase ends download_stream with no later phase executed.
C17_PhaseOrder ==
    /\ [] PhaseState
    /\ [][ /\ << spc, spc' >> \in PhaseSteps
           /\ spc \in { "done", "failed" } => UNCHANGED vars ]_vars

\* download_stream has returned after both fetches and the mux
C17_Witness ==
    /\ spc = "done"
    /\ fetches = 2
    /\ output_file \in files

\* the file name of a path
path_name(p) == p[Len(p)]

\* C14: every session has a working directory of its own, so the segment-file
\* and concat-list paths of two different sessions, even sessions for the same
\* manifest URL, are disjoint.
C14_SessionPathsDisjoint ==
    \A s, t \in Sessions :
        s # t =>
            /\ (mgr[s] # NoManager /\ mgr[t] # NoManager)
                   => mgr[s].output_dir # mgr[t].output_dir
            /\ used[s] \cap used[t] = {}

\* two sessions for the same manifest URL have opened files of the same names
C14_Witness ==
    \E s, t \in Sessions :
        /\ s # t
        /\ mgr[s] # NoManager /\ mgr[s].playlist_url = mgr[t].playlist_url
        /\ \E p \in used[s], q \in used[t] :
              path_name(p) = video_segments_file /\ path_name(q) = video_segments_file
        /\ \E p \in used[s], q \in used[t] :
              path_name(p) = "s0.ts" /\ path_name(q) = "s0.ts"

\* the URI of a manifest resolved against the directory that contains the
\* manifest: a relative path is appended to the path of that directory
in_directory_of(manifest, uri) ==
    IF uri.kind = "relative"
    THEN Url(manifest.host, ButLast(manifest.path) \o uri.path)
    ELSE urljoin(manifest, uri)

\* C16: the URLs of the two sub-manifests are their URIs resolved against the
\* directory of the top-level manifest, and the URL of a segment is its URI
\* resolved against the directory of the sub-manifest that lists it.
C16_UrlResolution ==
    /\ upc # "resolve" =>
          /\ video_playlist_url = in_directory_of(playlist_url, stream_uri)
          /\ audio_playlist_url = in_directory_of(playlist_url, audio_uri)
    /\ upc = "done" =>
          segment_url = in_directory_of(IF for_track = "video" THEN video_playlist_url
                                                           ELSE audio_playlist_url,
                                        segment_uri)

Ended == mpc \in { "returned", "raised" }

\* C19: every segment fetch job ends, with success or with a failure, so under
\* fair scheduling every invocation of _download_segments that has started
\* eventually returns or raises, even when a server never answers a GET.
C19_FetchTerminates == (mpc = "submit") ~> Ended

====
